---------------------------- MODULE Spec2Model ----------------------------
(***************************************************************************)
(* A model of unizipex.py: the reader of UNICORN 7 bulk exports.           *)
(*                                                                         *)
(* Strings that the code takes apart (curve names) are sequences of        *)
(* one-character strings; byte buffers are sequences of numbers 0..255.    *)
(* Offsets are Python's (0-based); the slicing helpers translate them.     *)
(* A call's outcome is a record [exc, val]: exc is "none" or the name of   *)
(* the Python exception that leaves the call.                              *)
(*                                                                         *)
(* Specifications:                                                         *)
(*   Spec           one constructor call, step by step, every way it goes  *)
(*   SpecInstances  several instances constructed one after the other      *)
(*   SpecEvents     the loop of _get_events over more EventCurve elements  *)
(*   SpecRo         the loop of _get_ro over more Curve elements           *)
(*   SpecName, SpecFloat, SpecPad   _correct_curve_name,                   *)
(*                  _decode_binary_data and _get_padding_start on their own*)
(***************************************************************************)
EXTENDS Integers, Sequences, FiniteSets, TLC

VARIABLES
    arg,            \* input of the static helper being called
    ret,            \* its outcome, <<>> before the call returns
    pc,             \* position of the running constructor call
    self,           \* index of the instance under construction
    do,             \* self._do
    ignore,         \* ignore_missing_data
    opened,         \* whether this call has opened the archive
    event_per_type, \* _get_events' local mapping
    ros,            \* _get_ro's local mapping
    before,         \* ros as it was when the current iteration of _get_ro began
    ec,             \* _get_events' loop variable, <<>> before the first iteration
    curve,          \* _get_ro's loop variable, <<>> before the first iteration
    inst,           \* per instance: outcome of its constructor and its attributes
    nextId          \* identity handed to the next object created

vars == <<arg, ret, pc, self, do, ignore, opened, event_per_type, ros,
          before, ec, curve, inst, nextId>>

----------------------------------------------------------------------------
(* Outcomes and Python's sequence primitives *)

Ok(v) == [exc |-> "none", val |-> v]

Raise(e) == [exc |-> e, val |-> <<>>]

Min(a, b) == IF a < b THEN a ELSE b

Max(a, b) == IF a > b THEN a ELSE b

\* buf[:e], e possibly negative
SliceTo(buf, e) ==
    IF e < 0 THEN SubSeq(buf, 1, Max(Len(buf) + e, 0))
    ELSE SubSeq(buf, 1, Min(e, Len(buf)))

\* buf[a:b] for 0 <= a
Slice(buf, a, b) == SubSeq(buf, a + 1, Min(b, Len(buf)))

\* all sequences over S of length at most n
SeqsUpTo(S, n) == UNION {[1..k -> S] : k \in 0..n}

\* n copies of x
Rep(x, n) == [i \in 1..n |-> x]

\* the 0-based offsets at which pat occurs in buf
Occurrences(buf, pat) ==
    {i \in 0..(Len(buf) - Len(pat)) : Slice(buf, i, i + Len(pat)) = pat}

Contains(buf, pat) == Occurrences(buf, pat) # {}

SetMax(S) == CHOOSE x \in S : \A y \in S : y <= x

SetMin(S) == CHOOSE x \in S : \A y \in S : x <= y

\* buf.index(pat)
Index(buf, pat) ==
    IF Contains(buf, pat) THEN Ok(<<SetMin(Occurrences(buf, pat))>>)
    ELSE Raise("ValueError")

\* buf.rindex(pat)
RIndex(buf, pat) ==
    IF Contains(buf, pat) THEN Ok(<<SetMax(Occurrences(buf, pat))>>)
    ELSE Raise("ValueError")

----------------------------------------------------------------------------
(* _decode_binary_data *)

prefix_len == 3 + 6 * 4

float_len == 4

buf_end == (prefix_len % float_len) - float_len

\* one '<f4' element: the 32-bit pattern of four bytes, least significant first
LittleEndian(b) == b[1] + 256 * b[2] + 65536 * b[3] + 16777216 * b[4]

DType(b) == LittleEndian(b)

\* np.frombuffer(buf, dtype, offset=offset) with count = -1
FromBuffer(buf, offset) ==
    IF offset > Len(buf) THEN Raise("ValueError")
    ELSE IF (Len(buf) - offset) % float_len # 0 THEN Raise("ValueError")
    ELSE Ok([i \in 1..((Len(buf) - offset) \div float_len) |->
                DType(Slice(buf, offset + float_len * (i - 1),
                                 offset + float_len * i))])

DecodeBinaryData(buf) == FromBuffer(SliceTo(buf, buf_end), prefix_len)

----------------------------------------------------------------------------
(* _get_padding_start *)

EOCD == <<80, 75, 5, 6>>

eocd_len == 22

GetPaddingStart(buf) ==
    LET eocd_start == RIndex(buf, EOCD)
    IN  IF eocd_start.exc # "none" THEN eocd_start
        ELSE Ok(<<eocd_start.val[1] + eocd_len>>)

----------------------------------------------------------------------------
(* _correct_curve_name *)

Digits == {"0", "1", "2", "3", "4", "5", "6", "7", "8", "9"}

DigitVal(c) ==
    CASE c = "0" -> 0 [] c = "1" -> 1 [] c = "2" -> 2 [] c = "3" -> 3
      [] c = "4" -> 4 [] c = "5" -> 5 [] c = "6" -> 6 [] c = "7" -> 7
      [] c = "8" -> 8 [] c = "9" -> 9

RECURSIVE Decimal(_)
Decimal(s) ==
    IF s = <<>> THEN 0
    ELSE 10 * Decimal(SubSeq(s, 1, Len(s) - 1)) + DigitVal(s[Len(s)])

RECURSIVE LStrip(_)
LStrip(s) == IF s # <<>> /\ s[1] = " " THEN LStrip(Tail(s)) ELSE s

RECURSIVE RStrip(_)
RStrip(s) ==
    IF s # <<>> /\ s[Len(s)] = " " THEN RStrip(SubSeq(s, 1, Len(s) - 1)) ELSE s

\* int(s) for a str s without '_': blanks stripped, an optional sign, digits
ParseInt(s) ==
    LET t == RStrip(LStrip(s))
        signed == t # <<>> /\ t[1] \in {"+", "-"}
        d == IF signed THEN Tail(t) ELSE t
    IN  IF d = <<>> \/ \E i \in 1..Len(d) : d[i] \notin Digits
        THEN Raise("ValueError")
        ELSE Ok(<<IF signed /\ t[1] = "-" THEN 0 - Decimal(d) ELSE Decimal(d)>>)

StartsWith(n, p) == Len(n) >= Len(p) /\ SubSeq(n, 1, Len(p)) = p

\* n.split(sep) for a one-character sep
RECURSIVE Split(_, _)
Split(n, sep) ==
    IF \A i \in 1..Len(n) : n[i] # sep THEN <<n>>
    ELSE LET i == CHOOSE j \in 1..Len(n) :
                      n[j] = sep /\ \A k \in 1..(j - 1) : n[k] # sep
         IN  <<SubSeq(n, 1, i - 1)>> \o Split(SubSeq(n, i + 1, Len(n)), sep)

S_Cond == <<"C", "o", "n", "d">>

S_Conductance == <<"C", "o", "n", "d", "u", "c", "t", "a", "n", "c", "e">>

S_PctCond == <<"%", " ">> \o S_Cond

S_ConductancePct == S_Conductance \o <<" ", "(", "%", ")">>

S_ConcB == <<"C", "o", "n", "c", " ", "B">>

S_ConcentrationB ==
    <<"C", "o", "n", "c", "e", "n", "t", "r", "a", "t", "i", "o", "n", " ", "B">>

S_PreCPressure == <<"P", "r", "e", "C", " ", "p", "r", "e", "s", "s", "u", "r", "e">>

S_PreColumnPressure ==
    <<"P", "r", "e", "-", "c", "o", "l", "u", "m", "n", " ",
      "p", "r", "e", "s", "s", "u", "r", "e">>

S_CondTemp == S_Cond \o <<" ", "t", "e", "m", "p">>

S_ConductanceTemperature ==
    S_Conductance \o <<" ", "t", "e", "m", "p", "e", "r", "a", "t", "u", "r", "e">>

better_names ==
    {<<S_Cond, S_Conductance>>, <<S_PctCond, S_ConductancePct>>,
     <<S_ConcB, S_ConcentrationB>>, <<S_PreCPressure, S_PreColumnPressure>>,
     <<S_CondTemp, S_ConductanceTemperature>>}

\* better_names.get(n, n)
BetterName(n) ==
    IF \E e \in better_names : e[1] = n
    THEN (CHOOSE e \in better_names : e[1] = n)[2]
    ELSE n

\* the outcome's value is <<display name, wavelength>>; wavelength is <<>> for
\* None and <<w>> for the integer w
CorrectCurveName(n) ==
    IF StartsWith(n, <<"U", "V">>) /\ Contains(n, <<"_">>)
    THEN LET parts == Split(n, "_")
         IN  IF Len(parts) # 2 THEN Raise("ValueError")
             ELSE LET wl == ParseInt(parts[2])
                  IN  IF wl.exc # "none" THEN wl
                      ELSE Ok(<<parts[1], wl.val>>)
    ELSE Ok(<<BetterName(n), <<>>>>)

----------------------------------------------------------------------------
(* The metadata document, as the code navigates it.                        *)
(*   EventCurve: [type, events], events the Event descendants in document  *)
(*     order; an Event is [vol, text], each <<>> when the child element is *)
(*     absent and <<t>> when it is present with text t.                    *)
(*   Curve: [files, blob, name, units]: files is the number of             *)
(*     BinaryCurvePointsFileName descendants, blob what the archive holds  *)
(*     under that file name (<<>>: no such entry, <<b>>: the bytes b and   *)
(*     the archive embedded in them), name the Name child (<<>> or <<n>>), *)
(*     units the texts of the ...Unit children by element name.            *)

\* d.capitalize() + 'Unit'
UnitName(d) ==
    CASE d = "volume" -> "VolumeUnit"
      [] d = "amplitude" -> "AmplitudeUnit"
      [] OTHER -> "TimeUnit"

\* f'CoordinateData.{d.capitalize()}s'
DimFName(d) ==
    CASE d = "volume" -> "CoordinateData.Volumes"
      [] d = "amplitude" -> "CoordinateData.Amplitudes"
      [] OTHER -> "CoordinateData.Times"

\* float(s) for the decimal texts of the model
Float(s) ==
    IF s = <<>> \/ \E i \in 1..Len(s) : s[i] \notin Digits
    THEN Raise("ValueError")
    ELSE Ok(<<Decimal(s)>>)

\* the tuple (float(e.find('EventVolume').text), e.find('EventText').text)
EventTuple(e) ==
    IF e.vol = <<>> THEN Raise("AttributeError")
    ELSE LET v == Float(e.vol[1])
         IN  IF v.exc # "none" THEN v
             ELSE IF e.text = <<>> THEN Raise("AttributeError")
             ELSE Ok(<<v.val[1], e.text[1]>>)

\* the list comprehension over ec.iter('Event'): the first failure leaves it
EventList(evs) ==
    LET tuples == [i \in 1..Len(evs) |-> EventTuple(evs[i])]
    IN  IF \E i \in 1..Len(evs) : tuples[i].exc # "none"
        THEN tuples[CHOOSE i \in 1..Len(evs) :
                       /\ tuples[i].exc # "none"
                       /\ \A j \in 1..(i - 1) : tuples[j].exc = "none"]
        ELSE Ok([i \in 1..Len(evs) |-> tuples[i].val])

\* tuple(list(r) for r in zip(*events)): no member at all for no events
ZipStar(events) ==
    IF events = <<>> THEN <<>>
    ELSE <<[i \in 1..Len(events) |-> events[i][1]],
           [i \in 1..Len(events) |-> events[i][2]]>>

\* reverse(nice): the module defines and imports no such name
Reverse(nice) == Raise("NameError")

\* d.setdefault(k, v)
PutIfAbsent(d, k, v) == [x \in DOMAIN d \cup {k} |-> IF x \in DOMAIN d THEN d[x] ELSE v]

\* d with key k set to v
Put(d, k, v) == [x \in DOMAIN d \cup {k} |-> IF x = k THEN v ELSE d[x]]

\* one iteration of _get_events' loop, for the EventCurve element el
GetEventsIter(d, ept, el) ==
    LET events == EventList(el.events)
    IN  IF events.exc # "none" THEN events
        ELSE LET nice == IF d[1] # "volume" THEN Reverse(ZipStar(events.val))
                         ELSE Ok(ZipStar(events.val))
             IN  IF nice.exc # "none" THEN nice
                 ELSE Ok(Put(ept, el.type, nice.val))

----------------------------------------------------------------------------
(* _decode_ro_buf, _get_ro_units, _get_ro *)

\* ZipFile(BytesIO(b)) for the first n bytes of a blob: they are an archive
\* exactly when they are the whole of the archive embedded in the blob
ZipFile(blob, n) ==
    IF n = blob.zipLen THEN Ok(blob.entries) ELSE Raise("BadZipFile")

\* self._decode_binary_data(ar.read(n))
ReadDim(ar, n) ==
    IF n \notin DOMAIN ar THEN Raise("KeyError") ELSE DecodeBinaryData(ar[n])

DecodeRoBuf(d, blob) ==
    LET stop == GetPaddingStart(blob.bytes)
    IN  IF stop.exc # "none" THEN stop
        ELSE LET ar == ZipFile(blob, Len(SliceTo(blob.bytes, stop.val[1])))
             IN  IF ar.exc # "none" THEN ar
                 ELSE LET dim_data == [i \in 1..Len(d) |-> ReadDim(ar.val, DimFName(d[i]))]
                      IN  IF \E i \in 1..Len(d) : dim_data[i].exc # "none"
                          THEN dim_data[CHOOSE i \in 1..Len(d) :
                                   /\ dim_data[i].exc # "none"
                                   /\ \A j \in 1..(i - 1) : dim_data[j].exc = "none"]
                          ELSE Ok([i \in 1..Len(d) |-> dim_data[i].val])

\* What the generator _get_ro_units returns yields, in order; it is not run
\* during the read, and a missing ...Unit element fails only when it is.
GetRoUnits(d, el) ==
    [i \in 1..Len(d) |->
        IF UnitName(d[i]) \in DOMAIN el.units
        THEN el.units[UnitName(d[i])] ELSE "AttributeError"]

\* one iteration of _get_ro's loop, for the Curve element el
GetRoIter(d, rs, el) ==
    IF el.files # 1 THEN Raise("ValueError")
    ELSE IF el.blob = <<>> THEN Raise("KeyError")
    ELSE LET m == DecodeRoBuf(d, el.blob[1])
         IN  IF m.exc # "none" THEN m
             ELSE IF el.name = <<>> THEN Raise("AttributeError")
             ELSE LET nw == CorrectCurveName(el.name[1])
                  IN  IF nw.exc # "none" THEN nw
                      ELSE Ok(Put(rs, nw.val[1],
                                  [measurements |-> m.val,
                                   units |-> GetRoUnits(d, el),
                                   wavelength |-> nw.val[2]]))

----------------------------------------------------------------------------
(* The class, its instances and _load_data's try block.                    *)
(* An attribute is [id, val]: the identity of the object and its content.  *)
(* An instance holds the attributes assigned through self; any other       *)
(* attribute is looked up in the class.                                    *)

ClassAttrs ==
    [fractions |-> [id |-> 1, val |-> <<>>],
     injections |-> [id |-> 2, val |-> <<>>],
     messages |-> [id |-> 3, val |-> <<>>],
     readout |-> [id |-> 4, val |-> <<>>]]

FirstFreeId == Cardinality(DOMAIN ClassAttrs) + 1

\* self.<f> of instance i
Attr(i, f) == IF f \in DOMAIN inst[i].attrs THEN inst[i].attrs[f] ELSE ClassAttrs[f]

EventKeys == <<"Fraction", "Injection", "Logbook">>

EventFields == <<"fractions", "injections", "messages">>

\* how many of the three assignments run before events[...] raises KeyError
Assigned(events) ==
    IF \A j \in 1..3 : EventKeys[j] \in DOMAIN events THEN 3
    ELSE (CHOOSE j \in 1..3 : /\ EventKeys[j] \notin DOMAIN events
                              /\ \A k \in 1..(j - 1) : EventKeys[k] \in DOMAIN events) - 1

\* the try block of _load_data: the attributes assigned, and what leaves it
LoadEvents(events, ign, id) ==
    LET n == Assigned(events)
        attrs == [f \in {EventFields[j] : j \in 1..n} |->
                    LET j == CHOOSE k \in 1..n : EventFields[k] = f
                    IN  [id |-> id + j - 1, val |-> events[EventKeys[j]]]]
    IN  IF n = 3 \/ ign THEN [exc |-> "none", val |-> attrs]
        ELSE [exc |-> "ValueError", val |-> attrs]

\* 'volume' in data_order and 'amplitude' in data_order
ValidOrder(data_order) ==
    /\ \E i \in 1..Len(data_order) : data_order[i] = "volume"
    /\ \E i \in 1..Len(data_order) : data_order[i] = "amplitude"

----------------------------------------------------------------------------
(* Bounds and the inputs drawn within them *)

MaxOrderLen == 3

MaxEvents == 2

MaxFloats == 1

NumInstances == 2

MaxNameLen == 4

MaxPad == 3

AxisNames == {"volume", "amplitude", "time"}

DataOrders == SeqsUpTo(AxisNames, MaxOrderLen)

\* what the archive on disk holds: the entry Chrom.1.Xml, and XML in it
Zips == [meta : BOOLEAN, wellFormed : BOOLEAN]

EventTypes == {"Fraction", "Injection", "Logbook"}

Events ==
    {[vol |-> <<<<"1">>>>, text |-> <<"a">>], [vol |-> <<<<"2">>>>, text |-> <<"b">>],
     [vol |-> <<>>, text |-> <<"a">>], [vol |-> <<<<"1">>>>, text |-> <<>>],
     [vol |-> <<<<"x">>>>, text |-> <<"b">>]}

\* EventCurve elements with at most n Events
EventCurves(n) == [type : EventTypes, events : SeqsUpTo(Events, n)]

\* the k floats 1.0 .. k as 32-bit patterns would need IEEE-754; the payload
\* of the model's entries holds the patterns 1 .. k, least significant first
RECURSIVE Payload(_)
Payload(k) == IF k = 0 THEN <<>> ELSE Payload(k - 1) \o <<k, 0, 0, 0>>

\* an entry of the embedded archive: prefix, k elements, r more bytes
Entry(k, r) == Rep(7, prefix_len) \o Payload(k) \o Rep(9, r)

\* a blob: an archive (some content, then its end record) and padding
Blob(entries, pad) ==
    [bytes |-> <<1, 2, 3>> \o EOCD \o Rep(0, eocd_len - Len(EOCD)) \o pad,
     zipLen |-> 3 + eocd_len,
     entries |-> entries]

Dims(kv, rv, ka, ra) ==
    [n \in {"CoordinateData.Volumes", "CoordinateData.Amplitudes"} |->
        IF n = "CoordinateData.Volumes" THEN Entry(kv, rv) ELSE Entry(ka, ra)]

Units == [n \in {"VolumeUnit", "AmplitudeUnit"} |->
            IF n = "VolumeUnit" THEN "ml" ELSE "mAU"]

S_UV_2 == <<"U", "V", "_", "2">>

S_UV_8 == <<"U", "V", "_", "8">>

S_UV_a == <<"U", "V", "_", "a">>

CurveNames == {S_Cond, S_Conductance, S_UV_2, S_UV_8}

GoodCurve(n, kv, ka, pad) ==
    [files |-> 1, blob |-> <<Blob(Dims(kv, 1, ka, 1), pad)>>, name |-> <<n>>,
     units |-> Units]

\* how many elements the two coordinate entries of a Curve hold: as many,
\* or none in the second
Lengths == {<<k, k>> : k \in 0..MaxFloats} \cup {<<k, 0>> : k \in 1..MaxFloats}

GoodCurves ==
    {GoodCurve(n, l[1], l[2], <<0, 0>>) : n \in CurveNames, l \in Lengths}
    \cup {GoodCurve(S_Cond, 1, 1, <<>>)}

\* Curve elements with one thing wrong each
BadCurves ==
    LET g == GoodCurve(S_Cond, 1, 1, <<0, 0>>)
    IN  {[g EXCEPT !.files = 0], [g EXCEPT !.files = 2],
         [g EXCEPT !.blob = <<>>],
         [g EXCEPT !.blob = <<[bytes |-> <<1, 2, 3, 80, 75, 5, 0, 0>>, zipLen |-> 0,
                               entries |-> <<>>]>>],
         [g EXCEPT !.blob = <<Blob([n \in {"CoordinateData.Volumes"} |-> Entry(1, 1)],
                                   <<0, 0>>)>>],
         [g EXCEPT !.blob = <<Blob(Dims(1, 1, 0, 0), <<0, 0>>)>>],
         [g EXCEPT !.blob = <<Blob(Dims(1, 1, 1, 3), <<0, 0>>)>>],
         [g EXCEPT !.blob = <<Blob([n \in DOMAIN Dims(1, 1, 1, 1) |-> <<7, 7, 7>>],
                                   <<0, 0>>)>>],
         [g EXCEPT !.name = <<>>],
         [g EXCEPT !.name = <<S_UV_a>>]}

Curves == GoodCurves \cup BadCurves

\* the elements the whole-lifecycle specification draws
LoadEventCurves ==
    [type : EventTypes,
     events : {<<e>> : e \in {[vol |-> <<<<"1">>>>, text |-> <<"a">>],
                               [vol |-> <<>>, text |-> <<"a">>]}}]

LoadCurves ==
    {GoodCurve(S_Cond, 1, 1, <<0, 0>>), GoodCurve(S_UV_2, 1, 0, <<0, 0>>)}
    \cup BadCurves

----------------------------------------------------------------------------
(* The constructor, one instance after another.                            *)
(* pc: "idle" (no call running), "events" (in _get_events' loop), "ro"     *)
(* (in _get_ro's loop), "raise" / "return" (the constructor is leaving     *)
(* with an exception / with the instance); for a static helper called on   *)
(* its own, "call" and then "return".                                      *)

Unborn == [status |-> "unborn", attrs |-> <<>>]

\* the constructor of instance i leaves with exception e: no instance results
Failed(i, e) == [inst EXCEPT ![i] = [status |-> e, attrs |-> <<>>]]

Fail(e) ==
    /\ inst' = Failed(self, e)
    /\ pc' = "raise"

\* __init__ up to the call of _get_events: the check of data_order, then
\* ZipFile(f_name), ar.open('Chrom.1.Xml') and et.parse
Start(i, data_order, ign, zip) ==
    /\ pc = "idle"
    /\ inst[i].status = "unborn"
    /\ \A j \in 1..(i - 1) : inst[j].status # "unborn"
    /\ arg' = [data_order |-> data_order, zip |-> zip]
    /\ self' = i
    /\ ignore' = ign
    /\ event_per_type' = <<>>
    /\ ros' = <<>>
    /\ before' = <<>>
    /\ ec' = <<>>
    /\ curve' = <<>>
    /\ IF ~ValidOrder(data_order)
       THEN /\ do' = <<>>
            /\ opened' = FALSE
            /\ inst' = Failed(i, "ValueError")
            /\ pc' = "raise"
       ELSE /\ do' = data_order
            /\ opened' = TRUE
            /\ IF ~zip.meta
               THEN inst' = Failed(i, "KeyError") /\ pc' = "raise"
               ELSE IF ~zip.wellFormed
               THEN inst' = Failed(i, "ParseError") /\ pc' = "raise"
               ELSE /\ inst' = [inst EXCEPT ![i].status = "building"]
                    /\ pc' = "events"
    /\ UNCHANGED <<ret, nextId>>

\* one iteration of the loop of _get_events, over the next EventCurve el
GetEventsStep(el) ==
    /\ pc = "events"
    /\ ec' = el
    /\ \E r \in {GetEventsIter(do, event_per_type, el)} :
           IF r.exc # "none"
           THEN Fail(r.exc) /\ UNCHANGED event_per_type
           ELSE event_per_type' = r.val /\ UNCHANGED <<inst, pc>>
    /\ UNCHANGED <<arg, ret, self, do, ignore, opened, ros, before, curve, nextId>>

\* _get_events returns (no EventCurve is left), and the try block runs
GetEventsReturn ==
    /\ pc = "events"
    /\ \E r \in {LoadEvents(event_per_type, ignore, nextId)} :
           IF r.exc # "none"
           THEN Fail(r.exc) /\ UNCHANGED nextId
           ELSE /\ inst' = [inst EXCEPT ![self].attrs = r.val]
                /\ nextId' = nextId + Cardinality(DOMAIN r.val)
                /\ pc' = "ro"
    /\ ec' = <<>>
    /\ UNCHANGED <<arg, ret, self, do, ignore, opened, event_per_type, ros,
                   before, curve>>

\* the iteration with the policy applied to it: a failure is passed over
GetRoStepIgnoring(el) ==
    /\ pc = "ro"
    /\ curve' = el
    /\ before' = ros
    /\ \E r \in {GetRoIter(do, ros, el)} :
           IF r.exc # "none" /\ ~ignore
           THEN Fail(r.exc) /\ UNCHANGED ros
           ELSE /\ ros' = IF r.exc # "none" THEN ros ELSE r.val
                /\ UNCHANGED <<inst, pc>>
    /\ UNCHANGED <<arg, ret, self, do, ignore, opened, event_per_type, ec, nextId>>

\* one iteration of the loop of _get_ro, over the next Curve el
GetRoStep(el) ==
    /\ pc = "ro"
    /\ curve' = el
    /\ before' = ros
    /\ \E r \in {GetRoIter(do, ros, el)} :
           IF r.exc # "none"
           THEN Fail(r.exc) /\ UNCHANGED ros
           ELSE ros' = r.val /\ UNCHANGED <<inst, pc>>
    /\ UNCHANGED <<arg, ret, self, do, ignore, opened, event_per_type, ec, nextId>>

\* _get_ro returns (no Curve is left), self.readout is assigned, and
\* _load_data and the constructor return
GetRoReturn ==
    /\ pc = "ro"
    /\ inst' = [inst EXCEPT ![self] =
                  [status |-> "ok",
                   attrs |-> Put(inst[self].attrs, "readout",
                                 [id |-> nextId, val |-> ros])]]
    /\ nextId' = nextId + 1
    /\ pc' = "return"
    /\ UNCHANGED <<arg, ret, self, do, ignore, opened, event_per_type, ros,
                   before, ec, curve>>

\* the values of the variables that belong to a running call, when none runs
NoCall ==
    /\ arg = <<>> /\ self = 0 /\ do = <<>> /\ ignore = FALSE /\ opened = FALSE
    /\ event_per_type = <<>> /\ ros = <<>> /\ before = <<>>
    /\ ec = <<>> /\ curve = <<>>

\* control is back at the caller: the arguments and locals of the call are gone
Leave ==
    /\ pc \in {"raise", "return"}
    /\ pc' = "idle"
    /\ arg' = <<>> /\ self' = 0 /\ do' = <<>> /\ ignore' = FALSE /\ opened' = FALSE
    /\ event_per_type' = <<>> /\ ros' = <<>> /\ before' = <<>>
    /\ ec' = <<>> /\ curve' = <<>>
    /\ UNCHANGED <<ret, inst, nextId>>

Init ==
    /\ pc = "idle"
    /\ NoCall
    /\ ret = <<>>
    /\ inst = [i \in 1..NumInstances |-> Unborn]
    /\ nextId = FirstFreeId

\* one constructor call, every way it can go
Next ==
    \/ \E data_order \in DataOrders, ign \in BOOLEAN, zip \in Zips :
          Start(1, data_order, ign, zip)
    \/ \E el \in LoadEventCurves : GetEventsStep(el)
    \/ GetEventsReturn
    \/ \E el \in LoadCurves : GetRoStep(el)
    \/ GetRoReturn

Spec == Init /\ [][Next]_vars

\* several instances, one constructed after the other from archives that
\* hold a well-formed Chrom.1.Xml, each with a pair as data_order
NextInstances ==
    \/ \E i \in 1..NumInstances, ign \in BOOLEAN :
          \E data_order \in {d \in DataOrders : ValidOrder(d) /\ Len(d) = 2} :
             Start(i, data_order, ign, [meta |-> TRUE, wellFormed |-> TRUE])
    \/ \E el \in LoadEventCurves : GetEventsStep(el)
    \/ GetEventsReturn
    \/ \E el \in LoadCurves : GetRoStep(el)
    \/ GetRoReturn
    \/ Leave

SpecInstances == Init /\ [][NextInstances]_vars

----------------------------------------------------------------------------
(* The two loops on their own, over more elements: a call that has reached *)
(* _get_events, or _get_ro, with a pair as data_order.                     *)

InCall(at) ==
    /\ pc = at
    /\ do \in {d \in DataOrders : ValidOrder(d) /\ Len(d) = 2}
    /\ arg = [data_order |-> do, zip |-> [meta |-> TRUE, wellFormed |-> TRUE]]
    /\ self = 1 /\ ignore = FALSE /\ opened = TRUE
    /\ event_per_type = <<>> /\ ros = <<>> /\ before = <<>>
    /\ ec = <<>> /\ curve = <<>> /\ ret = <<>>
    /\ inst = [i \in 1..NumInstances |->
                 IF i = 1 THEN [status |-> "building", attrs |-> <<>>] ELSE Unborn]
    /\ nextId = FirstFreeId

NextEvents == \E el \in EventCurves(MaxEvents) : GetEventsStep(el)

SpecEvents == InCall("events") /\ [][NextEvents]_vars

NextRo == \E el \in Curves : GetRoStep(el)

SpecRo == InCall("ro") /\ [][NextRo]_vars

----------------------------------------------------------------------------
(* The static helpers called on their own: arg is the argument, ret the    *)
(* outcome.                                                                *)

Helper(inputs) ==
    /\ pc = "call"
    /\ arg \in inputs
    /\ ret = <<>>
    /\ self = 0 /\ do = <<>> /\ ignore = FALSE /\ opened = FALSE
    /\ event_per_type = <<>> /\ ros = <<>> /\ before = <<>>
    /\ ec = <<>> /\ curve = <<>>
    /\ inst = [i \in 1..NumInstances |-> Unborn]
    /\ nextId = FirstFreeId

Returns(outcome) ==
    /\ pc = "call"
    /\ ret' = outcome
    /\ pc' = "return"
    /\ UNCHANGED <<arg, self, do, ignore, opened, event_per_type, ros, before,
                   ec, curve, inst, nextId>>

NameChars == {"U", "V", "_", "2", "8", "a", "-"}

S_UV_280 == <<"U", "V", "_", "2", "8", "0">>

S_UV_abc == <<"U", "V", "_", "a", "b", "c">>

S_Unrecognized == <<"U", "n", "r", "e", "c", "o", "g", "n", "i", "z", "e", "d">>

\* the names of at most n of these characters, and those of the table and
\* of the documentation
NameInputs(n) ==
    SeqsUpTo(NameChars, n)
    \cup {e[1] : e \in better_names} \cup {e[2] : e \in better_names}
    \cup {S_UV_280, S_UV_abc, S_Unrecognized, <<"U", "V", "_", " ", "2", "8", " ">>}

CallCorrectCurveName == Returns(CorrectCurveName(arg))

SpecName == Helper(NameInputs(MaxNameLen)) /\ [][CallCorrectCurveName]_vars

\* byte values below 128, so that an element's pattern is a number TLC holds
ByteVals == {0, 1, 127}

\* buffers shorter than the prefix, and a prefix followed by any bytes: up to
\* n elements and three bytes more
FloatInputs(n) ==
    {Rep(7, k) : k \in 0..(prefix_len - 1)}
    \cup {Rep(7, prefix_len) \o t : t \in SeqsUpTo(ByteVals, float_len * n + 3)}

CallDecodeBinaryData == Returns(DecodeBinaryData(arg))

SpecFloat == Helper(FloatInputs(MaxFloats)) /\ [][CallDecodeBinaryData]_vars

\* the 18 bytes of an end record after its marker: zeros, except for any last
\* three bytes, or for the bytes of the marker somewhere in the fields before
\* the comment length (the last two bytes)
EocdRests ==
    {Rep(0, eocd_len - Len(EOCD) - 3) \o t : t \in [1..3 -> {0, 80, 75, 5}]}
    \cup {Rep(0, k) \o EOCD \o Rep(0, eocd_len - 2 * Len(EOCD) - k) :
            k \in 0..(eocd_len - 2 * Len(EOCD) - 2)}

\* blobs [buf, zipLen, pad]: an archive of zipLen bytes that ends in an end
\* record, then the padding pad of at most n bytes; and blobs with no end
\* record (zipLen = 0)
PadInputs(n) ==
    {[buf |-> body \o EOCD \o rest \o pad,
      zipLen |-> Len(body) + eocd_len, pad |-> pad] :
        body \in {<<>>, <<0>>, EOCD}, rest \in EocdRests,
        pad \in SeqsUpTo({0, 80, 75, 5, 6}, n)}
    \cup {[buf |-> <<80, 75, 5>> \o pad, zipLen |-> 0, pad |-> pad] :
            pad \in SeqsUpTo({0, 80, 75, 5}, n)}

CallGetPaddingStart == Returns(GetPaddingStart(arg.buf))

SpecPad == Helper(PadInputs(MaxPad)) /\ [][CallGetPaddingStart]_vars

----------------------------------------------------------------------------
(* Claims about one constructor call (Spec)                                *)

ProperPairs == {<<"volume", "amplitude">>, <<"amplitude", "volume">>}

Running == self # 0

Unsuccessful == Running /\ inst[self].status \notin {"building", "ok"}

\* the event types with no EventCurve in the document, once _get_events is done
AbsentTypes == EventTypes \ DOMAIN event_per_type

FieldOf(t) ==
    CASE t = "Fraction" -> "fractions"
      [] t = "Injection" -> "injections"
      [] t = "Logbook" -> "messages"

\* the try block of _load_data has run in a permissive read of a document
\* that lacks exactly one of the three event types
OneTypeAbsentPermissive ==
    /\ Running /\ ignore /\ opened /\ arg.zip.meta /\ arg.zip.wellFormed
    /\ ec = <<>>
    /\ pc \in {"ro", "raise", "return"}
    /\ Cardinality(AbsentTypes) = 1

\* C1: in a permissive read of a document that lacks exactly one of Fraction,
\* Injection and Logbook, the try block does not fail, the event list of the
\* absent type is empty, and the lists of the two present types hold what
\* _get_events extracted from the document.
C1_PermissiveKeepsOtherTwo ==
    OneTypeAbsentPermissive =>
        /\ ~(pc = "raise" /\ curve = <<>>)
        /\ pc \in {"ro", "return"} =>
              \A t \in EventTypes :
                  Attr(self, FieldOf(t)).val =
                      IF t \in AbsentTypes THEN <<>> ELSE event_per_type[t]

\* C4: the container is opened only for a data_order that is a pair of one
\* 'volume' and one 'amplitude'; any other data_order is rejected with
\* ValueError before the container is opened.
C4_OnlyPairsAccepted ==
    Running =>
        IF arg.data_order \in ProperPairs
        THEN opened
        ELSE ~opened /\ inst[self].status = "ValueError"

\* a Curve element with a missing or repeated file name, no binary entry, a
\* blob without end marker, a missing or cut-off coordinate entry, no Name,
\* or a UV name whose suffix is no number
CurveDefect(c) ==
    \/ c.files # 1
    \/ c.blob = <<>>
    \/ ~Contains(c.blob[1].bytes, EOCD)
    \/ \E i \in 1..Len(do) :
          \/ DimFName(do[i]) \notin DOMAIN c.blob[1].entries
          \/ Len(c.blob[1].entries[DimFName(do[i])]) < prefix_len
    \/ c.name = <<>>
    \/ /\ StartsWith(c.name[1], <<"U", "V", "_">>)
       /\ \E i \in 4..Len(c.name[1]) : c.name[1][i] \notin Digits

\* an EventCurve element with an Event that lacks EventVolume or EventText
EventCurveDefect(x) ==
    \E i \in 1..Len(x.events) : x.events[i].vol = <<>> \/ x.events[i].text = <<>>

----------------------------------------------------------------------------
(* Claims about several instances (SpecInstances)                          *)

Fields == {"fractions", "injections", "messages", "readout"}

\* C10: the containers of a constructed instance are objects created for it:
\* none is an object of the class, and no two instances hold the same object.
C10_NoSharedContainers ==
    \A i \in 1..NumInstances : inst[i].status = "ok" =>
        /\ \A f \in Fields : Attr(i, f).id >= FirstFreeId
        /\ \A j \in 1..NumInstances : (j # i /\ inst[j].status = "ok") =>
              \A f, g \in Fields : Attr(i, f).id # Attr(j, g).id

----------------------------------------------------------------------------
(* Claims about the loop of _get_events (SpecEvents)                       *)

\* every Event of x has an EventVolume with a decimal text and an EventText
WellFormedEvents(x) ==
    \A i \in 1..Len(x.events) :
        /\ x.events[i].vol # <<>>
        /\ x.events[i].text # <<>>
        /\ x.events[i].vol[1] # <<>>
        /\ \A j \in 1..Len(x.events[i].vol[1]) : x.events[i].vol[1][j] \in Digits

VolumesOf(x) == [i \in 1..Len(x.events) |-> Decimal(x.events[i].vol[1])]

TextsOf(x) == [i \in 1..Len(x.events) |-> x.events[i].text[1]]

\* C5: after the iteration over an EventCurve whose Events are well formed,
\* with any number of Events and either axis order, the list stored under
\* its type is a pair of two sequences as long as the Events are many, the
\* volumes and the texts in document order, volumes first exactly when
\* data_order begins with 'volume'.
C5_EventListIsOrderedPair ==
    (Running /\ ec # <<>> /\ WellFormedEvents(ec)) =>
        /\ pc = "events"
        /\ ec.type \in DOMAIN event_per_type
        /\ event_per_type[ec.type] =
              IF do[1] = "volume" THEN <<VolumesOf(ec), TextsOf(ec)>>
              ELSE <<TextsOf(ec), VolumesOf(ec)>>

----------------------------------------------------------------------------
(* Claims about the loop of _get_ro (SpecRo)                               *)

\* the display name the normalization rule gives the raw names of Curves
DisplayName(n) ==
    IF StartsWith(n, <<"U", "V", "_">>) THEN <<"U", "V">>
    ELSE IF n = S_Cond THEN S_Conductance
    ELSE n

\* the elements that follow the prefix of a coordinate entry (the model's
\* entries hold small numbers: an element is its first byte)
ElementsOf(entry) ==
    [i \in 1..((Len(entry) - prefix_len) \div float_len) |->
        entry[prefix_len + float_len * (i - 1) + 1]]

\* the read-out of the Curve c alone: its coordinate entries in the order
\* of data_order, its units in that order, the number in its UV name
ReadOutOf(c) ==
    [measurements |->
        [i \in 1..Len(do) |-> ElementsOf(c.blob[1].entries[DimFName(do[i])])],
     units |-> [i \in 1..Len(do) |-> IF do[i] = "volume" THEN "ml" ELSE "mAU"],
     wavelength |-> IF StartsWith(c.name[1], <<"U", "V", "_">>)
                    THEN <<Decimal(SubSeq(c.name[1], 4, Len(c.name[1])))>>
                    ELSE <<>>]

\* C7: each Curve that _get_ro has processed replaced the entry under its
\* display name by its own read-out and left every other entry as it was,
\* so the mapping has one entry per display name met, that of the last Curve
\* in document order with that display name.
C7_LastWriteWins ==
    (Running /\ pc = "ro" /\ curve # <<>>) =>
        LET n == DisplayName(curve.name[1])
        IN  /\ DOMAIN ros = DOMAIN before \cup {n}
            /\ \A m \in DOMAIN before \ {n} : ros[m] = before[m]
            /\ ros[n] = ReadOutOf(curve)

\* C7's case: the Curve just processed has the display name of an earlier
\* Curve with other data, under another raw name
C7_Witness ==
    /\ Running /\ pc = "ro" /\ curve # <<>>
    /\ curve.name[1] = S_Cond
    /\ S_Conductance \in DOMAIN before
    /\ before[S_Conductance] # ros[S_Conductance]
    /\ <<"U", "V">> \in DOMAIN before

\* C9: the measurement sequences of every read-out in the mapping have the
\* same length (a Curve whose coordinate entries differ in length is a
\* failure, not an entry).
C9_EqualLengths ==
    (Running /\ pc = "ro") =>
        \A n \in DOMAIN ros :
            \A i, j \in 1..Len(ros[n].measurements) :
                Len(ros[n].measurements[i]) = Len(ros[n].measurements[j])

----------------------------------------------------------------------------
(* Claims about the static helpers (SpecFloat, SpecName, SpecPad)          *)

Returned == pc = "return" /\ self = 0

\* C2: a buffer of 27 + 4k + r bytes, 0 <= r < 4, decodes without error to
\* k elements: the 4-byte groups from offset 27 on, least significant byte
\* first; the r bytes after them are ignored.
C2_DecodesAnyTail ==
    (Returned /\ Len(arg) >= 27) =>
        /\ ret.exc = "none"
        /\ Len(ret.val) = (Len(arg) - 27) \div 4
        /\ \A i \in 1..Len(ret.val) :
              ret.val[i] = arg[27 + 4 * i - 3] + 256 * arg[27 + 4 * i - 2]
                           + 65536 * arg[27 + 4 * i - 1] + 16777216 * arg[27 + 4 * i]

\* how many '_' the name has
Underscores(n) == Cardinality({i \in 1..Len(n) : n[i] = "_"})

\* the first '_' of a name that has one
UnderscoreAt(n) == CHOOSE i \in 1..Len(n) : n[i] = "_" /\ \A j \in 1..(i - 1) : n[j] # "_"

\* C3: a name that starts with UV and has exactly one '_' gives the text
\* before the '_' and the integer after it, or fails when that is no
\* integer; any other name gives its entry in the table of better names, or
\* itself, with no wavelength, and does not fail.
C3_NameNormalization ==
    Returned =>
        IF StartsWith(arg, <<"U", "V">>) /\ Underscores(arg) = 1
        THEN LET i == UnderscoreAt(arg)
                 wl == ParseInt(SubSeq(arg, i + 1, Len(arg)))
             IN  IF wl.exc = "none"
                 THEN ret = Ok(<<SubSeq(arg, 1, i - 1), wl.val>>)
                 ELSE ret.exc = "ValueError"
        ELSE ret = Ok(<<BetterName(arg), <<>>>>)

\* C6 as claimed: for an archive that ends in an end record, followed by
\* padding in which the marker does not occur, the offset found is the
\* length of the archive; with no marker in the blob the search fails.
C6_PaddingFreeOfMarker ==
    Returned =>
        /\ (arg.zipLen > 0 /\ ~Contains(arg.pad, EOCD)) => ret = Ok(<<arg.zipLen>>)
        /\ ~Contains(arg.buf, EOCD) => ret.exc = "ValueError"

\* the bytes of the blob after the first byte of the archive's end record
AfterMarkerStart(blob) == SubSeq(blob.buf, blob.zipLen - eocd_len + 2, Len(blob.buf))

\* C6, amended: for an archive that ends in an end record, followed by
\* padding, such that the marker does not occur in the bytes after the first
\* byte of the end record (the rest of the record and the padding, taken
\* together), the offset found is the length of the archive, whatever the
\* padding; with no marker in the blob the search fails.
C6_NoLaterMarker ==
    Returned =>
        /\ (arg.zipLen > 0 /\ ~Contains(AfterMarkerStart(arg), EOCD)) =>
              ret = Ok(<<arg.zipLen>>)
        /\ ~Contains(arg.buf, EOCD) => ret.exc = "ValueError"

\* C6's case: the offset is found behind an archive that has the marker in
\* its content too, before padding as long as the bound allows
C6_Witness ==
    /\ Returned
    /\ arg.zipLen > eocd_len + 1
    /\ Len(arg.pad) = MaxPad
    /\ ~Contains(AfterMarkerStart(arg), EOCD)
    /\ ret = Ok(<<arg.zipLen>>)

=============================================================================
